---- MODULE Spec2Model ----
(***************************************************************************)
(* Model of src/src/shapley_explainer.py (class ShapleyExplainer).          *)
(*                                                                         *)
(* Arrays are sequences: a 2-D array is a sequence of rows, a row is a      *)
(* sequence of integers.  Feature indices are 0-based as in the source, so  *)
(* column j of a row r is r[j + 1].  The arrays hold floats (dtype float64)  *)
(* with integer values; a float the code computes from them is kept as the  *)
(* exact fraction [num, den] it rounds, in lowest terms with den > 0.       *)
(***************************************************************************)
EXTENDS Integers, Sequences, FiniteSets, TLC

\* model, background_dataset: the explainer's attributes.  constructed: the
\* background as passed to __init__.  op, args, ret: the method last called,
\* its arguments and what the caller has received from it.  items, it: the
\* list a subset iterator reads and the state of that iterator.
VARIABLES model, background_dataset, constructed, op, args, ret, items, it

vars == <<model, background_dataset, constructed, op, args, ret, items, it>>

(***************************************************************************)
(* Bounds of the explored inputs.                                           *)
(***************************************************************************)
MaxRows == 3
MaxCols == 2
MaxInstances == 2
MaxM == 6
MaxItems == 3

(***************************************************************************)
(* Exact fractions.                                                         *)
(***************************************************************************)
Abs(n) == IF n < 0 THEN -n ELSE n

RECURSIVE GCD(_, _)
GCD(a, b) == IF b = 0 THEN a ELSE GCD(b, a % b)

Rat(n, d) ==
    LET g == GCD(Abs(n), Abs(d))
        s == IF d < 0 THEN -1 ELSE 1
    IN  [num |-> (s * n) \div g, den |-> (s * d) \div g]

RatInt(n) == [num |-> n, den |-> 1]

RatAdd(a, b) == Rat(a.num * b.den + b.num * a.den, a.den * b.den)

RatSub(a, b) == Rat(a.num * b.den - b.num * a.den, a.den * b.den)

RatMul(a, b) == Rat(a.num * b.num, a.den * b.den)

\* Sum of s[lo..hi], halving the range to keep the evaluation shallow.
RECURSIVE RatSumRange(_, _, _)
RatSumRange(s, lo, hi) ==
    IF lo > hi THEN RatInt(0)
    ELSE IF lo = hi THEN s[lo]
    ELSE RatAdd(RatSumRange(s, lo, (lo + hi) \div 2),
                RatSumRange(s, (lo + hi) \div 2 + 1, hi))

RatSum(s) == RatSumRange(s, 1, Len(s))

(***************************************************************************)
(* Sequence helpers.                                                        *)
(***************************************************************************)
Range(s) == {s[k] : k \in 1..Len(s)}

RECURSIVE SumSeq(_)
SumSeq(s) == IF s = <<>> THEN 0 ELSE Head(s) + SumSeq(Tail(s))

\* math.factorial: ValueError for a negative argument.
RECURSIVE product_up_to(_)
product_up_to(n) == IF n <= 0 THEN 1 ELSE n * product_up_to(n - 1)

factorial(n) ==
    IF n < 0 THEN [err |-> "ValueError", value |-> 0]
    ELSE [err |-> "none", value |-> product_up_to(n)]

\* itertools.combinations(pool, r): the r-length subsequences of pool, in
\* lexicographic order of their positions; none when r > len(pool).
RECURSIVE combinations(_, _)
combinations(pool, r) ==
    IF r = 0 THEN << <<>> >>
    ELSE IF Len(pool) < r THEN <<>>
    ELSE LET rest == combinations(Tail(pool), r - 1)
         IN  [k \in 1..Len(rest) |-> <<Head(pool)>> \o rest[k]]
             \o combinations(Tail(pool), r)

(***************************************************************************)
(* ShapleyExplainer._get_all_subsets                                        *)
(*                                                                         *)
(* The method returns chain.from_iterable(combinations(items, r) for r in   *)
(* range(len(items)+1)): a one-shot iterator.  range(len(items)+1) is fixed *)
(* at the call; combinations(items, r) copies the list when the iterator    *)
(* reaches size r.  An iterator is [stop, r, pending, done]: r is the next  *)
(* size to start, pending the combinations of the current size not yet      *)
(* yielded.                                                                 *)
(***************************************************************************)
subsets_stop_short(list) == Len(list)

\* range(len(items) + 1) stops before this r.
subsets_stop(list) == Len(list) + 1

get_all_subsets_iterator(list) ==
    [stop |-> subsets_stop(list), r |-> 0, pending |-> <<>>, done |-> FALSE]

\* next(iterator) while the list it reads holds `list`: the iterator after
\* the call and the tuple yielded (none at StopIteration).
RECURSIVE chain_next(_, _)
chain_next(iter, list) ==
    IF iter.pending # <<>>
    THEN [it |-> [iter EXCEPT !.pending = Tail(@)], yielded |-> <<Head(iter.pending)>>]
    ELSE IF iter.r >= iter.stop
    THEN [it |-> [iter EXCEPT !.done = TRUE], yielded |-> <<>>]
    ELSE chain_next([iter EXCEPT !.r = @ + 1, !.pending = combinations(list, iter.r)],
                    list)

\* The tuples a for loop (or list()) draws from the iterator while nothing
\* modifies the list.
RECURSIVE consume(_, _)
consume(iter, list) ==
    LET n == chain_next(iter, list)
    IN  IF n.it.done THEN <<>> ELSE n.yielded \o consume(n.it, list)

get_all_subsets(list) == consume(get_all_subsets_iterator(list), list)

(***************************************************************************)
(* ShapleyExplainer._get_all_other_feature_subsets                          *)
(***************************************************************************)
RECURSIVE other_features(_, _, _)
other_features(i, n_features, feature_of_interest) ==
    IF i >= n_features THEN <<>>
    ELSE (IF i # feature_of_interest THEN <<i>> ELSE <<>>)
         \o other_features(i + 1, n_features, feature_of_interest)

get_all_other_feature_subsets(n_features, feature_of_interest) ==
    get_all_subsets(other_features(0, n_features, feature_of_interest))

(***************************************************************************)
(* ShapleyExplainer._permutation_factor                                     *)
(***************************************************************************)
weight_of(a, b, c) ==
    IF a.err # "none" \/ b.err # "none" \/ c.err # "none"
    THEN [err |-> "ValueError", value |-> RatInt(0)]
    ELSE [err |-> "none", value |-> Rat(a.value * b.value, c.value)]

permutation_factor_off_by_one(n_features, n_subset) ==
    weight_of(factorial(n_subset), factorial(n_features - n_subset),
              factorial(n_features))

permutation_factor(n_features, n_subset) ==
    weight_of(factorial(n_subset), factorial(n_features - n_subset - 1),
              factorial(n_features))

(***************************************************************************)
(* The model callable held by the explainer (an input of the program).      *)
(* Predict(m, dataset) is the vector self.model(dataset) returns.           *)
(*   "linear"  : one prediction per row, 2*x0 + 3*x1 + 4*x2 + ...           *)
(*   "product" : one prediction per row, x0 * x1 * ...                      *)
(*   "extra"   : the linear predictions followed by one more value, so the  *)
(*               vector is one longer than the dataset has rows.            *)
(***************************************************************************)
RECURSIVE LinearRow(_, _)
LinearRow(row, j) ==
    IF j >= Len(row) THEN 0 ELSE (j + 2) * row[j + 1] + LinearRow(row, j + 1)

RECURSIVE ProductRow(_, _)
ProductRow(row, j) ==
    IF j >= Len(row) THEN 1 ELSE row[j + 1] * ProductRow(row, j + 1)

F(m, row) == IF m = "product" THEN ProductRow(row, 0) ELSE LinearRow(row, 0)

Predict(m, dataset) ==
    LET p == [r \in 1..Len(dataset) |-> F(m, dataset[r])]
    IN  IF m = "extra" THEN p \o <<0>> ELSE p

Models == {"linear", "product", "extra"}

(***************************************************************************)
(* ShapleyExplainer._subset_model_approximation                             *)
(***************************************************************************)
\* copy.deepcopy: a new array object with the same contents.  The id tells
\* whether writes through the result reach the original object.
deepcopy_alias(obj) == [id |-> "same", val |-> obj]

deepcopy(obj) == [id |-> "copy", val |-> obj]

NumCols(dataset) == Len(dataset[1])

\* dataset[:, j] = v
SetColumn(dataset, j, v) ==
    [r \in 1..Len(dataset) |-> [dataset[r] EXCEPT ![j + 1] = v]]

\* n_features = len(dataset); range(0, n_features - 1) stops before this j.
overwrite_stop_all_rows(dataset) == Len(dataset)

overwrite_stop(dataset) == Len(dataset) - 1

\* for j in range(0, n_features - 1): if j in feature_subset: dataset[:, j] = instance[j]
RECURSIVE overwrite_columns(_, _, _, _, _)
overwrite_columns(dataset, j, stop, feature_subset, instance) ==
    IF j >= stop THEN [err |-> "none", dataset |-> dataset]
    ELSE IF j \in Range(feature_subset)
         THEN IF j >= Len(instance) \/ j >= NumCols(dataset)
              THEN [err |-> "IndexError", dataset |-> dataset]
              ELSE overwrite_columns(SetColumn(dataset, j, instance[j + 1]),
                                     j + 1, stop, feature_subset, instance)
         ELSE overwrite_columns(dataset, j + 1, stop, feature_subset, instance)

\* Result: err, the value returned, the dataset handed to the model, the
\* predictions it returned, and the contents of self.background_dataset
\* after the call.
subset_model_approximation(bg, m, feature_subset, instance) ==
    LET copy == deepcopy(bg)
        w == overwrite_columns(copy.val, 0, overwrite_stop(copy.val),
                               feature_subset, instance)
        after == IF copy.id = "same" THEN w.dataset ELSE bg
        predictions == Predict(m, w.dataset)
    IN  IF w.err # "none"
        THEN [err |-> w.err, value |-> RatInt(0), dataset |-> w.dataset,
              predictions |-> <<>>, background |-> after]
        ELSE [err |-> "none",
              value |-> Rat(SumSeq(predictions), Len(predictions)),
              dataset |-> w.dataset, predictions |-> predictions,
              background |-> after]

(***************************************************************************)
(* ShapleyExplainer._compute_single_shapley_value                           *)
(***************************************************************************)
RECURSIVE accumulate(_, _, _, _, _, _, _)
accumulate(subsets, k, accumulator, bg, m, feature, instance) ==
    IF k > Len(subsets)
    THEN [err |-> "none", value |-> accumulator, background |-> bg]
    ELSE LET S == subsets[k]
             S_plus_feature == S \o <<feature>>
             without_feature == subset_model_approximation(bg, m, S, instance)
             with_feature == subset_model_approximation(
                                 without_feature.background, m, S_plus_feature, instance)
             weight == permutation_factor(Len(instance), Len(S))
         IN  IF without_feature.err # "none"
             THEN [err |-> without_feature.err, value |-> RatInt(0),
                   background |-> without_feature.background]
             ELSE IF with_feature.err # "none"
             THEN [err |-> with_feature.err, value |-> RatInt(0),
                   background |-> with_feature.background]
             ELSE IF weight.err # "none"
             THEN [err |-> weight.err, value |-> RatInt(0),
                   background |-> with_feature.background]
             ELSE accumulate(subsets, k + 1,
                             RatAdd(accumulator,
                                    RatMul(weight.value, RatSub(with_feature.value,
                                                          without_feature.value))),
                             with_feature.background, m, feature, instance)

compute_single_shapley_value(bg, m, feature, instance) ==
    accumulate(get_all_other_feature_subsets(Len(instance), feature), 1,
               RatInt(0), bg, m, feature, instance)

(***************************************************************************)
(* ShapleyExplainer.shapley_values                                          *)
(***************************************************************************)
\* np.zeros_like(X): float zeros of X's shape.
zeros_like(X) == [i \in 1..Len(X) |-> [j \in 1..Len(X[1]) |-> RatInt(0)]]

\* shapley_values[i, j] = v
StoreCell(values, i, j, v) == [values EXCEPT ![i + 1][j + 1] = v]

RECURSIVE fill(_, _, _, _, _, _)
fill(values, i, j, bg, m, X) ==
    IF i >= Len(X) THEN [err |-> "none", values |-> values, background |-> bg]
    ELSE IF j >= Len(X[1]) THEN fill(values, i + 1, 0, bg, m, X)
    ELSE LET c == compute_single_shapley_value(bg, m, j, X[i + 1])
         IN  IF c.err # "none"
             THEN [err |-> c.err, values |-> <<>>, background |-> c.background]
             ELSE fill(StoreCell(values, i, j, c.value), i, j + 1,
                       c.background, m, X)

shapley_values(bg, m, X) == fill(zeros_like(X), 0, 0, bg, m, X)

(***************************************************************************)
(* Inputs.                                                                  *)
(***************************************************************************)
\* Rows a background dataset of c columns is built from.
BackgroundRows(c) ==
    { [j \in 1..c |-> 0], [j \in 1..c |-> 2], [j \in 1..c |-> j - 1] }

Backgrounds ==
    UNION { [1..n -> BackgroundRows(c)] : n \in 1..MaxRows, c \in 1..MaxCols }

\* Instances of c features.
Instances(c) == { [j \in 1..c |-> 2 * j + 2], [j \in 1..c |-> 4] }

\* Increasing lists of distinct indices below MaxItems.
RECURSIVE SortedSeq(_)
SortedSeq(S) ==
    IF S = {} THEN <<>>
    ELSE LET x == CHOOSE y \in S : \A z \in S : y <= z
         IN  <<x>> \o SortedSeq(S \ {x})

ItemLists == { SortedSeq(S) : S \in SUBSET (0..(MaxItems - 1)) }

\* Column counts of the matrices passed to shapley_values: that of the
\* background dataset, one fewer and one more.
XCols(bg) == { c \in (NumCols(bg) - 1)..(NumCols(bg) + 1) : c >= 1 }

NoCall == [none |-> TRUE]

(***************************************************************************)
(* State machine.  Init is the explainer after __init__(model,              *)
(* background_dataset).  A call action runs one method to completion and    *)
(* records its arguments and result; Discard drops the result.  The two     *)
(* subset methods return an iterator: their call action creates it, Advance *)
(* is one next() on it, and Caller_append is the caller adding an index to  *)
(* the list it passed while the iterator is live.                           *)
(***************************************************************************)
Init ==
    /\ model \in Models
    /\ background_dataset \in Backgrounds
    /\ constructed = background_dataset
    /\ op = "idle"
    /\ args = NoCall
    /\ ret = NoCall
    /\ items = <<>>
    /\ it = NoCall

Call_shapley_values ==
    /\ op = "idle"
    /\ \E c \in XCols(background_dataset), n \in 1..MaxInstances :
         \E X \in [1..n -> Instances(c)] :
            \E r \in { shapley_values(background_dataset, model, X) } :
                /\ op' = "shapley_values"
                /\ args' = [X |-> X]
                /\ ret' = [err |-> r.err, values |-> r.values]
                /\ background_dataset' = r.background
    /\ UNCHANGED <<model, constructed, items, it>>

Call_compute_single_shapley_value ==
    /\ op = "idle"
    /\ \E c \in 1..(MaxCols + 1) :
         \E instance \in Instances(c), feature \in 0..(c - 1) :
            \E r \in { compute_single_shapley_value(background_dataset, model,
                                                  feature, instance) } :
                /\ op' = "compute_single_shapley_value"
                /\ args' = [feature |-> feature, instance |-> instance]
                /\ ret' = [err |-> r.err, value |-> r.value]
                /\ background_dataset' = r.background
    /\ UNCHANGED <<model, constructed, items, it>>

Call_subset_model_approximation ==
    /\ op = "idle"
    /\ \E c \in 1..(MaxCols + 1) :
         \E instance \in Instances(c), S \in SUBSET (0..(c - 1)) :
            \E r \in { subset_model_approximation(background_dataset, model,
                                                SortedSeq(S), instance) } :
                /\ op' = "subset_model_approximation"
                /\ args' = [feature_subset |-> SortedSeq(S), instance |-> instance]
                /\ ret' = [err |-> r.err, value |-> r.value, dataset |-> r.dataset,
                           predictions |-> r.predictions]
                /\ background_dataset' = r.background
    /\ UNCHANGED <<model, constructed, items, it>>

\* ret.subsets collects what the iterator has yielded; ret.list_changed
\* records that the caller modified the list after the call.
Call_get_all_subsets ==
    /\ op = "idle"
    /\ \E list \in ItemLists :
         /\ op' = "get_all_subsets"
         /\ args' = [items |-> list]
         /\ items' = list
         /\ it' = get_all_subsets_iterator(list)
    /\ ret' = [subsets |-> <<>>, list_changed |-> FALSE]
    /\ UNCHANGED <<model, background_dataset, constructed>>

\* The list is the method's local other_features: nothing else refers to it.
Call_get_all_other_feature_subsets ==
    /\ op = "idle"
    /\ \E n_features \in 1..(MaxItems + 1) :
         \E feature_of_interest \in 0..(n_features - 1) :
            /\ op' = "get_all_other_feature_subsets"
            /\ args' = [n_features |-> n_features,
                        feature_of_interest |-> feature_of_interest]
            /\ items' = other_features(0, n_features, feature_of_interest)
            /\ it' = get_all_subsets_iterator(
                         other_features(0, n_features, feature_of_interest))
    /\ ret' = [subsets |-> <<>>, list_changed |-> FALSE]
    /\ UNCHANGED <<model, background_dataset, constructed>>

Advance ==
    /\ op \in {"get_all_subsets", "get_all_other_feature_subsets"}
    /\ ~it.done
    /\ \E n \in { chain_next(it, items) } :
         /\ it' = n.it
         /\ ret' = [ret EXCEPT !.subsets = @ \o n.yielded]
    /\ UNCHANGED <<model, background_dataset, constructed, op, args, items>>

Caller_append ==
    /\ op = "get_all_subsets"
    /\ ~it.done
    /\ \E x \in 0..(MaxItems - 1) :
         /\ x \notin Range(items)
         /\ items' = Append(items, x)
    /\ ret' = [ret EXCEPT !.list_changed = TRUE]
    /\ UNCHANGED <<model, background_dataset, constructed, op, args, it>>

Call_permutation_factor ==
    /\ op = "idle"
    /\ \E n_features \in 0..MaxM :
         \E n_subset \in (-1)..n_features :
            /\ op' = "permutation_factor"
            /\ args' = [n_features |-> n_features, n_subset |-> n_subset]
            /\ ret' = permutation_factor(n_features, n_subset)
    /\ UNCHANGED <<model, background_dataset, constructed, items, it>>

\* _permutation_factor(n_features, s) called for every coalition size s = 0 ..
\* n_features-1 (by_size), and for every coalition of the features other than
\* feature 0 as the loop of _compute_single_shapley_value calls it
\* (by_coalition).
Call_permutation_factor_weights ==
    /\ op = "idle"
    /\ \E n_features \in 1..MaxM :
         \E subsets \in { get_all_other_feature_subsets(n_features, 0) } :
            /\ op' = "permutation_factor_weights"
            /\ args' = [n_features |-> n_features]
            /\ ret' = [by_size |-> [s \in 1..n_features |->
                                       permutation_factor(n_features, s - 1).value],
                       by_coalition |-> [k \in 1..Len(subsets) |->
                                       permutation_factor(n_features,
                                                          Len(subsets[k])).value]]
    /\ UNCHANGED <<model, background_dataset, constructed, items, it>>

Discard ==
    /\ op # "idle"
    /\ op' = "idle"
    /\ args' = NoCall
    /\ ret' = NoCall
    /\ items' = <<>>
    /\ it' = NoCall
    /\ UNCHANGED <<model, background_dataset, constructed>>

\* The methods that use the model and the background dataset.
Next ==
    \/ Call_shapley_values
    \/ Call_compute_single_shapley_value
    \/ Call_subset_model_approximation
    \/ Discard

Spec == Init /\ [][Next]_vars

\* The combinatorial helpers.  They read neither self.model nor
\* self.background_dataset, so one background shape is taken.
InitHelpers ==
    /\ Init
    /\ Len(background_dataset) = 1
    /\ NumCols(background_dataset) = 1

NextHelpers ==
    \/ Call_get_all_subsets
    \/ Call_get_all_other_feature_subsets
    \/ Advance
    \/ Caller_append
    \/ Call_permutation_factor
    \/ Call_permutation_factor_weights
    \/ Discard

SpecHelpers == InitHelpers /\ [][NextHelpers]_vars

(***************************************************************************)
(* Vocabulary of the properties.                                            *)
(***************************************************************************)
N_bg == Len(background_dataset)

M_bg == NumCols(background_dataset)

\* The model returns exactly one prediction per row of the background.
OnePredictionPerRow == Len(Predict(model, background_dataset)) = N_bg

\* mean(model(background_dataset))
Baseline ==
    Rat(SumSeq(Predict(model, background_dataset)),
        Len(Predict(model, background_dataset)))

\* model(x) - mean(model(background_dataset)) for one instance x.
Deviation(x) == RatSub(RatInt(F(model, x)), Baseline)

\* The background with the columns of feature_subset set to the instance's
\* values and every other column kept.
CoalitionDataset(feature_subset, instance) ==
    [r \in 1..N_bg |->
        [c \in 1..M_bg |-> IF (c - 1) \in Range(feature_subset)
                           THEN instance[c]
                           ELSE background_dataset[r][c]]]

(***************************************************************************)
(* C1  Efficiency: when shapley_values is given a matrix with as many       *)
(* columns as the background and the model returns one prediction per row,  *)
(* it returns, and the Shapley values of each instance sum to               *)
(* model(x) - mean(model(background_dataset)).                              *)
(***************************************************************************)
C1_Efficiency ==
    (op = "shapley_values" /\ Len(args.X[1]) = M_bg /\ OnePredictionPerRow)
        => /\ ret.err = "none"
           /\ \A i \in 1..Len(args.X) :
                 RatSum(ret.values[i]) = Deviation(args.X[i])

(***************************************************************************)
(* C2  The dataset _subset_model_approximation passes to the model is the   *)
(* background with every column of the coalition overwritten by the         *)
(* instance's value and every other column unchanged.                       *)
(***************************************************************************)
C2_CoalitionColumnsOverwritten ==
    (op = "subset_model_approximation"
       /\ Range(args.feature_subset) \subseteq 0..(M_bg - 1))
        => /\ ret.err = "none"
           /\ ret.dataset = CoalitionDataset(args.feature_subset, args.instance)

(***************************************************************************)
(* C3  For f(x0, x1) = 2*x0 + 3*x1, background [[0,0],[2,2]] and instance   *)
(* [4, 6], shapley_values returns 6 for feature 0 and 15 for feature 1,     *)
(* which sum to f(4, 6) - 5 = 21.                                           *)
(***************************************************************************)
C3_LinearScenario ==
    (op = "shapley_values" /\ model = "linear"
       /\ constructed = << <<0, 0>>, <<2, 2>> >>
       /\ args.X = << <<4, 6>> >>)
        => /\ ret.err = "none"
           /\ ret.values = << <<RatInt(6), RatInt(15)>> >>
           /\ RatSum(ret.values[1]) = RatInt(21)
           /\ Deviation(<<4, 6>>) = RatInt(21)

(***************************************************************************)
(* C4  With a single feature, _get_all_other_feature_subsets(1, 0) yields   *)
(* exactly the empty tuple, and the Shapley value of feature 0 is           *)
(* f(instance) - mean(f(background)).                                       *)
(***************************************************************************)
C4_SingleFeature ==
    /\ (op = "get_all_other_feature_subsets" /\ args.n_features = 1 /\ it.done)
          => ret.subsets = << <<>> >>
    /\ (op = "compute_single_shapley_value" /\ M_bg = 1
          /\ Len(args.instance) = 1 /\ OnePredictionPerRow)
          => /\ ret.err = "none"
             /\ ret.value = Deviation(args.instance)

(***************************************************************************)
(* C5  shapley_values ends in an error and returns no matrix whenever X     *)
(* and the background dataset differ in column count.                       *)
(***************************************************************************)
C5_ShapeMismatchRaises ==
    (op = "shapley_values" /\ Len(args.X[1]) # M_bg)
        => ret.err # "none" /\ ret.values = <<>>

(***************************************************************************)
(* C6  When the model returns a number of predictions different from the    *)
(* number of rows it was given, shapley_values ends in an error and no      *)
(* Shapley value is returned.                                               *)
(***************************************************************************)
C6_InvalidModelOutputRaises ==
    (op = "shapley_values" /\ ~OnePredictionPerRow)
        => ret.err # "none" /\ ret.values = <<>>

(***************************************************************************)
(* C7  Weight normalization as stated: for a fixed feature count M the      *)
(* weights _permutation_factor(M, s), s = 0..M-1, are all positive and sum  *)
(* to 1.                                                                    *)
(***************************************************************************)
C7_WeightsBySizeSumToOne ==
    op = "permutation_factor_weights"
        => /\ RatSum(ret.by_size) = RatInt(1)
           /\ \A s \in 1..Len(ret.by_size) :
                 ret.by_size[s].num > 0 /\ ret.by_size[s].den > 0

(***************************************************************************)
(* C7 (amended)  For a fixed feature count M every weight                   *)
(* _permutation_factor(M, s), s = 0..M-1, is positive, and the weights of   *)
(* the 2^(M-1) coalitions of the other features, each taken with its size,  *)
(* sum to 1; the sum over the M sizes alone is 1 only for M <= 2 and is     *)
(* smaller for M >= 3.                                                      *)
(***************************************************************************)
C7_WeightsByCoalitionSumToOne ==
    op = "permutation_factor_weights"
        => /\ Len(ret.by_size) = args.n_features
           /\ Len(ret.by_coalition) = 2 ^ (args.n_features - 1)
           /\ RatSum(ret.by_coalition) = RatInt(1)
           /\ \A s \in 1..Len(ret.by_size) :
                 ret.by_size[s].num > 0 /\ ret.by_size[s].den > 0
           /\ args.n_features <= 2 => RatSum(ret.by_size) = RatInt(1)
           /\ args.n_features >= 3 =>
                 RatSum(ret.by_size).num < RatSum(ret.by_size).den

C7_Witness ==
    /\ op = "permutation_factor_weights"
    /\ args.n_features >= 4
    /\ ret.by_size[1] # ret.by_size[2]
    /\ RatSum(ret.by_coalition) = RatInt(1)

(***************************************************************************)
(* C8  The background dataset is never mutated: after any sequence of       *)
(* calls every cell equals its value at construction.                       *)
(***************************************************************************)
C8_BackgroundNeverMutated == background_dataset = constructed

C8_Witness ==
    /\ op = "subset_model_approximation"
    /\ ret.err = "none"
    /\ args.feature_subset # <<>>
    /\ ret.dataset # constructed

(***************************************************************************)
(* C9  _get_all_subsets over K distinct indices yields exactly 2^K          *)
(* subsets, pairwise distinct as sets, each made of indices of the input    *)
(* without repetition, covering every size 0..K (only the empty subset for  *)
(* an empty input); _get_all_other_feature_subsets(M, f) yields exactly     *)
(* 2^(M-1) subsets and none contains f.  The subsets are those the returned *)
(* iterator has yielded when it is exhausted, the list being left as it was *)
(* passed.                                                                  *)
(***************************************************************************)
C9_SubsetEnumeration ==
    /\ (op = "get_all_subsets" /\ it.done /\ ~ret.list_changed) =>
          /\ Len(ret.subsets) = 2 ^ Len(args.items)
          /\ \A a, b \in 1..Len(ret.subsets) :
                a # b => Range(ret.subsets[a]) # Range(ret.subsets[b])
          /\ \A a \in 1..Len(ret.subsets) :
                /\ Range(ret.subsets[a]) \subseteq Range(args.items)
                /\ Cardinality(Range(ret.subsets[a])) = Len(ret.subsets[a])
          /\ \A size \in 0..Len(args.items) :
                \E a \in 1..Len(ret.subsets) : Len(ret.subsets[a]) = size
          /\ args.items = <<>> => ret.subsets = << <<>> >>
    /\ (op = "get_all_other_feature_subsets" /\ it.done) =>
          /\ Len(ret.subsets) = 2 ^ (args.n_features - 1)
          /\ \A a \in 1..Len(ret.subsets) :
                args.feature_of_interest \notin Range(ret.subsets[a])

C9_Witness ==
    /\ op = "get_all_subsets"
    /\ it.done
    /\ ~ret.list_changed
    /\ Len(args.items) >= 3
    /\ Len(ret.subsets) = 8

(***************************************************************************)
(* C10  The overwrite loop visits only the columns 0..N_bg-2.  (a) A        *)
(* feature f >= N_bg-1 gets Shapley value exactly 0 from                    *)
(* _compute_single_shapley_value: the call returns for every instance of at *)
(* most M features, and whenever it returns the value is 0.  (b) When       *)
(* N_bg >= M+1 and X has M columns, the values computed for the M features  *)
(* of an instance sum to model(instance) - mean(model(background)).         *)
(***************************************************************************)
C10_LoopBoundedByRowCount ==
    /\ (op = "compute_single_shapley_value" /\ args.feature >= N_bg - 1)
          => /\ ret.err = "none" => ret.value = RatInt(0)
             /\ Len(args.instance) <= M_bg => ret.err = "none"
    /\ (op = "shapley_values" /\ Len(args.X[1]) = M_bg
          /\ N_bg >= M_bg + 1 /\ OnePredictionPerRow)
          => /\ ret.err = "none"
             /\ \A i \in 1..Len(args.X) :
                   RatSum(ret.values[i]) = Deviation(args.X[i])

C10_Witness ==
    /\ op = "compute_single_shapley_value"
    /\ args.feature >= N_bg - 1
    /\ Len(args.instance) = M_bg
    /\ M_bg >= 2
    /\ model = "linear"
    /\ ret.err = "none"
    /\ ret.value = RatInt(0)
    /\ Deviation(args.instance) # RatInt(0)

====
